---- MODULE Spec2Model ----
(***************************************************************************)
(* The correction pipeline of the English Assistant backend:               *)
(* CorrectionAgent.correct_text and the helpers it calls                   *)
(* (backend/agents/correction_agent.py), with the request validator        *)
(* (backend/models/api_models.py) and DataTransformer.clean_text           *)
(* (backend/utils/response_formatter.py).                                  *)
(*                                                                         *)
(* An edit (a "correction" dictionary of the code) is a record; its        *)
(* "position" dictionary is the pair of fields start, end.  Confidences    *)
(* are integers in hundredths.                                             *)
(***************************************************************************)
EXTENDS Integers, Sequences, FiniteSets, TLC

(***************************************************************************)
(* Bounds of the model.                                                    *)
(***************************************************************************)
\* longest request text, in characters (specification Spec)
MaxTextLen == 3
\* most words of a text the generative model returns
MaxRewriteWords == 2
\* most matches one rule-checker call reports (specification Spec)
MaxMatches == 1
\* most matches one rule-checker call reports (specification SpecPairs)
MaxPairMatches == 2
\* longest request text (specification SpecPairs)
MaxPairTextLen == 2
\* longest request text (specification SpecLong)
MaxLongTextLen == 5
\* SpecEdits: the longest request text
MaxEditsTextLen == 2
\* SpecEdits: the most matches the rule checker reports in one call
MaxEditsMatches == 2
\* SpecExamples: the most matches the rule checker reports in one call
MaxExampleMatches == 4

(***************************************************************************)
(* Characters and Python's string primitives.  A text is a TLA+ string;    *)
(* the empty text is "".                                                   *)
(***************************************************************************)
\* stands for the null byte "\x00", which clean_text removes and which is
\* no whitespace for str.strip and str.split
NUL == "@"
SP == " "
\* the characters of request texts
TextChars == {"a", SP, NUL}
\* the words of the texts the generative model returns
RewriteWords == {"a", "b"}
\* Python's None
None == "<None>"

Min(a, b) == IF a < b THEN a ELSE b
Max(a, b) == IF a > b THEN a ELSE b

\* the strings over the characters S of length exactly n
RECURSIVE StringsOfLen(_, _)
StringsOfLen(S, n) ==
  IF n = 0 THEN {""} ELSE {s \o c : s \in StringsOfLen(S, n - 1), c \in S}

\* the strings over S of length lo..hi
Strings(S, lo, hi) == UNION {StringsOfLen(S, n) : n \in lo..hi}

\* all sequences over S of length 0..n
SeqsUpTo(S, n) == UNION {[1..k -> S] : k \in 0..n}

\* the character of s at 0-based index i
CharAt(s, i) == SubSeq(s, i + 1, i + 1)

\* Python's s[i:j] for 0 <= i, 0 <= j: indices beyond the end are clamped
Slice(s, i, j) == SubSeq(s, Min(i, Len(s)) + 1, Min(j, Len(s)))
\* Python's s[:i]
SliceTo(s, i) == Slice(s, 0, i)
\* Python's s[j:]
SliceFrom(s, j) == Slice(s, j, Len(s))

RECURSIVE LStrip(_)
LStrip(s) == IF s # "" /\ CharAt(s, 0) = SP THEN LStrip(SliceFrom(s, 1)) ELSE s

RECURSIVE RStrip(_)
RStrip(s) ==
  IF s # "" /\ CharAt(s, Len(s) - 1) = SP
    THEN RStrip(SliceTo(s, Len(s) - 1))
    ELSE s

\* str.strip(): leading and trailing whitespace removed
Strip(s) == RStrip(LStrip(s))

\* str.split(): the maximal runs of non-whitespace characters, in order
RECURSIVE SplitFrom(_, _, _)
SplitFrom(s, i, cur) ==
  IF i >= Len(s)
    THEN (IF cur = "" THEN <<>> ELSE <<cur>>)
    ELSE IF CharAt(s, i) = SP
      THEN (IF cur = "" THEN <<>> ELSE <<cur>>) \o SplitFrom(s, i + 1, "")
      ELSE SplitFrom(s, i + 1, cur \o CharAt(s, i))

Split(s) == SplitFrom(s, 0, "")

\* " ".join(words)
RECURSIVE Join(_)
Join(words) ==
  IF words = <<>> THEN ""
  ELSE IF Len(words) = 1 THEN words[1]
  ELSE words[1] \o SP \o Join(Tail(words))

\* s.startswith(sub, i)
StartsWithAt(s, i, sub) ==
  /\ i + Len(sub) <= Len(s)
  /\ Slice(s, i, i + Len(sub)) = sub

\* sub in s
Contains(s, sub) == \E i \in 0..Len(s) : StartsWithAt(s, i, sub)

\* str.replace(sub, ""): every occurrence of a non-empty sub removed,
\* scanning left to right
RECURSIVE RemoveAllFrom(_, _, _)
RemoveAllFrom(s, i, sub) ==
  IF i >= Len(s) THEN ""
  ELSE IF StartsWithAt(s, i, sub) THEN RemoveAllFrom(s, i + Len(sub), sub)
  ELSE CharAt(s, i) \o RemoveAllFrom(s, i + 1, sub)

RemoveAll(s, sub) == RemoveAllFrom(s, 0, sub)

Reverse(s) == [i \in 1..Len(s) |-> s[Len(s) + 1 - i]]

\* the lower-case letter of every upper-case letter
LowerOf ==
  [A |-> "a", B |-> "b", C |-> "c", D |-> "d", E |-> "e", F |-> "f", G |-> "g",
   H |-> "h", I |-> "i", J |-> "j", K |-> "k", L |-> "l", M |-> "m", N |-> "n",
   O |-> "o", P |-> "p", Q |-> "q", R |-> "r", S |-> "s", T |-> "t", U |-> "u",
   V |-> "v", W |-> "w", X |-> "x", Y |-> "y", Z |-> "z"]

\* str.lower() of one character
LowerChar(c) == IF c \in DOMAIN LowerOf THEN LowerOf[c] ELSE c

\* str.lower()
RECURSIVE Lower(_)
Lower(s) == IF s = "" THEN "" ELSE LowerChar(CharAt(s, 0)) \o Lower(SliceFrom(s, 1))

(***************************************************************************)
(* DataTransformer.clean_text and the request validator.                   *)
(***************************************************************************)
\* DataTransformer.clean_text: whitespace runs collapsed to one space, the
\* ends trimmed, and then the null bytes removed
clean_text(text) ==
  IF text = "" THEN "" ELSE RemoveAll(Join(Split(Strip(text))), NUL)

\* CorrectionRequest.validate_text: TRUE when the validator raises
validate_text_rejects(v) == Strip(v) = ""

\* CorrectionRequest.validate_text: the value the request holds afterwards
validate_text(v) == Strip(v)

(***************************************************************************)
(* The rule checker's matches and their conversion to edits                *)
(* (CorrectionAgent._correct_with_languagetool).                           *)
(***************************************************************************)
\* as categorize_error_type, but without the conversion to lower case
categorize_error_type_case_sensitive(rule_id, category) ==
  IF Contains(rule_id, "spell") \/ Contains(category, "spell") THEN "spelling"
  ELSE IF Contains(category, "grammar") \/ Contains(rule_id, "agreement") THEN "grammar"
  ELSE IF Contains(rule_id, "punct") \/ Contains(category, "punct") THEN "punctuation"
  ELSE IF Contains(rule_id, "capital") \/ Contains(category, "capital")
    THEN "capitalization"
  ELSE IF Contains(rule_id, "article") THEN "article_usage"
  ELSE IF Contains(rule_id, "preposition") THEN "preposition_usage"
  ELSE IF Contains(rule_id, "tense") THEN "verb_tense"
  ELSE "grammar"

\* CorrectionAgent._categorize_error_type
categorize_error_type(rule_id, category) ==
  LET rule_id_lower == Lower(rule_id)
      category_lower == Lower(category)
  IN  IF Contains(rule_id_lower, "spell") \/ Contains(category_lower, "spell")
        THEN "spelling"
      ELSE IF Contains(category_lower, "grammar") \/ Contains(rule_id_lower, "agreement")
        THEN "grammar"
      ELSE IF Contains(rule_id_lower, "punct") \/ Contains(category_lower, "punct")
        THEN "punctuation"
      ELSE IF Contains(rule_id_lower, "capital") \/ Contains(category_lower, "capital")
        THEN "capitalization"
      ELSE IF Contains(rule_id_lower, "article") THEN "article_usage"
      ELSE IF Contains(rule_id_lower, "preposition") THEN "preposition_usage"
      ELSE IF Contains(rule_id_lower, "tense") THEN "verb_tense"
      ELSE "grammar"

\* as calculate_match_confidence, but without the clamp to [0.1, 1.0]
calculate_match_confidence_unclamped(match) ==
  LET base == IF match.category = "GRAMMAR" THEN 90
              ELSE IF match.category = "TYPOS" THEN 95
              ELSE IF match.category = "STYLE" THEN 60
              ELSE 80
  IN  IF Len(match.replacements) = 1 THEN base + 10
      ELSE IF Len(match.replacements) > 3 THEN base - 10
      ELSE base

\* CorrectionAgent._calculate_match_confidence, in hundredths
calculate_match_confidence(match) ==
  LET base == IF match.category = "GRAMMAR" THEN 90
              ELSE IF match.category = "TYPOS" THEN 95
              ELSE IF match.category = "STYLE" THEN 60
              ELSE 80
      adjusted == IF Len(match.replacements) = 1 THEN base + 10
                  ELSE IF Len(match.replacements) > 3 THEN base - 10
                  ELSE base
  IN  Min(100, Max(10, adjusted))

\* TRUE when building the correction dictionary of a match raises: str.lower()
\* of a rule identifier or a category that is None
match_conversion_raises(match) == match.ruleId = None \/ match.category = None

\* as match_to_correction, but the last replacement is taken
match_to_correction_last_replacement(text, match) ==
  [original |-> Slice(text, match.offset, match.offset + match.errorLength),
   corrected |-> IF match.replacements # <<>>
                   THEN match.replacements[Len(match.replacements)] ELSE "",
   error_type |-> categorize_error_type(match.ruleId, match.category),
   rule_explanation |-> match.message,
   start |-> match.offset,
   end |-> match.offset + match.errorLength,
   confidence |-> calculate_match_confidence(match),
   source |-> "languagetool"]

\* the correction dictionary built in the loop of _correct_with_languagetool
match_to_correction(text, match) ==
  [original |-> Slice(text, match.offset, match.offset + match.errorLength),
   corrected |-> IF match.replacements # <<>> THEN match.replacements[1] ELSE "",
   error_type |-> categorize_error_type(match.ruleId, match.category),
   rule_explanation |-> match.message,
   start |-> match.offset,
   end |-> match.offset + match.errorLength,
   confidence |-> calculate_match_confidence(match),
   source |-> "languagetool"]

\* the loop of _correct_with_languagetool: the corrections appended before the
\* first match whose conversion raises
RECURSIVE convert_matches(_, _)
convert_matches(text, matches) ==
  IF matches = <<>> \/ match_conversion_raises(Head(matches))
    THEN <<>>
    ELSE <<match_to_correction(text, Head(matches))>>
           \o convert_matches(text, Tail(matches))

\* TRUE when the rule checker is there, its check returns and every match converts
languagetool_succeeds(lt) ==
  /\ lt.available
  /\ ~lt.check_raises
  /\ \A i \in 1..Len(lt.matches) : ~match_conversion_raises(lt.matches[i])

\* CorrectionAgent._correct_with_languagetool; lt is what the rule checker does
\* in this call: [available, check_raises, matches]
correct_with_languagetool(text, lt) ==
  IF ~lt.available THEN <<>>
  ELSE IF lt.check_raises THEN <<>>
  ELSE convert_matches(text, lt.matches)

(***************************************************************************)
(* The generative model (CorrectionAgent._correct_with_t5).                *)
(***************************************************************************)
\* the prompt prefix the agent puts before the text and strips from the result
PromptPrefix == "grammar: "

\* CorrectionAgent._correct_with_t5; t5 is what the model does in this call:
\* [available, raises, results], results the list the pipeline returns
correct_with_t5(text, t5) ==
  IF ~t5.available THEN text
  ELSE IF t5.raises THEN text
  ELSE IF t5.results # <<>> THEN Strip(RemoveAll(t5.results[1], PromptPrefix))
  ELSE text

(***************************************************************************)
(* Merging the two sources (CorrectionAgent._merge_corrections).           *)
(***************************************************************************)
\* list.sort / sorted with key position.start: a stable sort, ascending
RECURSIVE InsertByStart(_, _)
InsertByStart(sorted, c) ==
  IF sorted = <<>> THEN <<c>>
  ELSE IF sorted[Len(sorted)].start <= c.start THEN Append(sorted, c)
  ELSE Append(InsertByStart(SubSeq(sorted, 1, Len(sorted) - 1), c), sorted[Len(sorted)])

RECURSIVE SortByStartFrom(_, _)
SortByStartFrom(sorted, rest) ==
  IF rest = <<>> THEN sorted
  ELSE SortByStartFrom(InsertByStart(sorted, Head(rest)), Tail(rest))

\* as sort_by_start, but descending
sort_by_start_descending(corrections) == Reverse(SortByStartFrom(<<>>, corrections))

sort_by_start(corrections) == SortByStartFrom(<<>>, corrections)

\* sorted(..., reverse=True): descending, and still stable (elements with
\* equal keys keep their order)
sort_by_start_reverse(corrections) == Reverse(sort_by_start(Reverse(corrections)))

\* as text_difference, but without the space counted before the word
text_difference_unspaced(original_words, corrected_words, i) ==
  LET position_start == Len(Join(SubSeq(original_words, 1, i)))
  IN  [original |-> original_words[i + 1],
       corrected |-> corrected_words[i + 1],
       start |-> position_start,
       end |-> position_start + Len(original_words[i + 1])]

\* the dictionary _find_text_differences appends for word index i (0-based)
text_difference(original_words, corrected_words, i) ==
  LET joined == Len(Join(SubSeq(original_words, 1, i)))
      position_start == IF i > 0 THEN joined + 1 ELSE joined
  IN  [original |-> original_words[i + 1],
       corrected |-> corrected_words[i + 1],
       start |-> position_start,
       end |-> position_start + Len(original_words[i + 1])]

\* CorrectionAgent._find_text_differences
RECURSIVE find_differences_from(_, _, _)
find_differences_from(original_words, corrected_words, i) ==
  IF i >= Min(Len(original_words), Len(corrected_words)) THEN <<>>
  ELSE (IF original_words[i + 1] # corrected_words[i + 1]
          THEN <<text_difference(original_words, corrected_words, i)>>
          ELSE <<>>)
       \o find_differences_from(original_words, corrected_words, i + 1)

\* as find_text_differences, but a word without a counterpart is compared
\* with the empty word
find_text_differences_padded(original, corrected) ==
  LET original_words == Split(original)
      corrected_words == Split(corrected)
      max_len == Max(Len(original_words), Len(corrected_words))
      padded(words) == words \o [k \in 1..(max_len - Len(words)) |-> ""]
  IN  find_differences_from(padded(original_words), padded(corrected_words), 0)

find_text_differences(original, corrected) ==
  find_differences_from(Split(original), Split(corrected), 0)

\* the overlap test of _has_overlapping_correction
spans_overlap(new_start, new_end, existing_start, existing_end) ==
  new_start < existing_end /\ new_end > existing_start

\* CorrectionAgent._has_overlapping_correction
has_overlapping_correction(new_correction, existing_corrections) ==
  \E k \in 1..Len(existing_corrections) :
    spans_overlap(new_correction.start, new_correction.end,
                  existing_corrections[k].start, existing_corrections[k].end)

\* as t5_correction, but the correction is labelled as a rule-checker edit
t5_correction_as_rule_edit(diff) ==
  [original |-> diff.original,
   corrected |-> diff.corrected,
   error_type |-> "grammar",
   rule_explanation |-> "Grammar improvement suggested by AI model",
   start |-> diff.start,
   end |-> diff.end,
   confidence |-> 70,
   source |-> "languagetool"]

\* the correction dictionary _merge_corrections builds from a difference
t5_correction(diff) ==
  [original |-> diff.original,
   corrected |-> diff.corrected,
   error_type |-> "grammar",
   rule_explanation |-> "Grammar improvement suggested by AI model",
   start |-> diff.start,
   end |-> diff.end,
   confidence |-> 70,
   source |-> "t5"]

\* as add_t5_diffs, but a difference replaces the corrections it overlaps
RECURSIVE add_t5_diffs_model_wins(_, _)
add_t5_diffs_model_wins(merged_corrections, t5_diffs) ==
  IF t5_diffs = <<>> THEN merged_corrections
  ELSE LET diff == Head(t5_diffs)
           disjoint(c) == ~spans_overlap(diff.start, diff.end, c.start, c.end)
       IN  add_t5_diffs_model_wins(
             Append(SelectSeq(merged_corrections, disjoint), t5_correction(diff)),
             Tail(t5_diffs))

\* as add_t5_diffs, but without the overlap check
RECURSIVE add_t5_diffs_unchecked(_, _)
add_t5_diffs_unchecked(merged_corrections, t5_diffs) ==
  IF t5_diffs = <<>> THEN merged_corrections
  ELSE add_t5_diffs_unchecked(Append(merged_corrections, t5_correction(Head(t5_diffs))),
                              Tail(t5_diffs))

\* the loop of _merge_corrections over the differences
RECURSIVE add_t5_diffs(_, _)
add_t5_diffs(merged_corrections, t5_diffs) ==
  IF t5_diffs = <<>> THEN merged_corrections
  ELSE IF ~has_overlapping_correction(Head(t5_diffs), merged_corrections)
    THEN add_t5_diffs(Append(merged_corrections, t5_correction(Head(t5_diffs))),
                      Tail(t5_diffs))
    ELSE add_t5_diffs(merged_corrections, Tail(t5_diffs))

\* the list of _merge_corrections before its final sort
merge_unsorted(original_text, t5_corrected, lt_corrections) ==
  IF t5_corrected # original_text
    THEN add_t5_diffs(lt_corrections, find_text_differences(original_text, t5_corrected))
    ELSE lt_corrections

\* as merge_corrections, but without the final sort
merge_corrections_unsorted(original_text, t5_corrected, lt_corrections) ==
  merge_unsorted(original_text, t5_corrected, lt_corrections)

\* CorrectionAgent._merge_corrections
merge_corrections(original_text, t5_corrected, lt_corrections) ==
  sort_by_start(merge_unsorted(original_text, t5_corrected, lt_corrections))

(***************************************************************************)
(* Applying the merged list (CorrectionAgent._apply_corrections).          *)
(***************************************************************************)
\* one splice of the loop of _apply_corrections
apply_one(corrected_text, correction) ==
  SliceTo(corrected_text, correction.start)
    \o correction.corrected
    \o SliceFrom(corrected_text, correction.end)

RECURSIVE apply_in_order(_, _)
apply_in_order(corrected_text, sorted_corrections) ==
  IF sorted_corrections = <<>> THEN corrected_text
  ELSE apply_in_order(apply_one(corrected_text, Head(sorted_corrections)),
                      Tail(sorted_corrections))

\* CorrectionAgent._apply_corrections
apply_corrections(text, corrections) ==
  IF corrections = <<>> THEN text
  ELSE apply_in_order(text, sort_by_start_reverse(corrections))

(***************************************************************************)
(* Explanation, grammar rules, examples and confidence score.              *)
(***************************************************************************)
\* CorrectionAgent.grammar_rules, the table set up by __init__
grammar_rules_table ==
  [subject_verb_agreement |-> "Subject and verb must agree in number",
   article_usage |-> "Correct usage of articles (a, an, the)",
   preposition_usage |-> "Proper preposition selection",
   verb_tense |-> "Correct verb tense usage",
   punctuation |-> "Proper punctuation marks",
   capitalization |-> "Correct capitalization rules",
   spelling |-> "Correct spelling of words",
   word_order |-> "Proper word order in sentences",
   plural_singular |-> "Correct plural and singular forms",
   pronoun_usage |-> "Proper pronoun usage and agreement"]

\* Python's a / b, the quotient kept as the fraction num/den; b = 0 raises
\* ZeroDivisionError
Divide(a, b) ==
  IF b = 0
    THEN [raised |-> "ZeroDivisionError", num |-> 0, den |-> 1]
    ELSE [raised |-> "", num |-> a, den |-> b]

\* as count_error_types, but every edit is tallied on its own
RECURSIVE count_error_types_per_edit(_, _)
count_error_types_per_edit(error_counts, corrections) ==
  IF corrections = <<>> THEN error_counts
  ELSE count_error_types_per_edit(
         Append(error_counts, [error_type |-> Head(corrections).error_type, count |-> 1]),
         Tail(corrections))

\* error_counts of _generate_correction_explanation: the error types in the
\* order of their first occurrence (the insertion order of the dictionary),
\* each with its count
RECURSIVE count_error_types(_, _)
count_error_types(error_counts, corrections) ==
  IF corrections = <<>> THEN error_counts
  ELSE LET error_type == Head(corrections).error_type
           known == \E k \in 1..Len(error_counts) : error_counts[k].error_type = error_type
           bumped == [k \in 1..Len(error_counts) |->
                        IF error_counts[k].error_type = error_type
                          THEN [error_counts[k] EXCEPT !.count = @ + 1]
                          ELSE error_counts[k]]
       IN  count_error_types(
             IF known THEN bumped
             ELSE Append(error_counts, [error_type |-> error_type, count |-> 1]),
             Tail(corrections))

\* the clause of one error type
error_clause(entry) ==
  IF entry.count = 1
    THEN "1 " \o entry.error_type \o " error"
    ELSE ToString(entry.count) \o " " \o entry.error_type \o " errors"

\* ". ".join(explanations)
RECURSIVE join_sentences(_)
join_sentences(explanations) ==
  IF explanations = <<>> THEN ""
  ELSE IF Len(explanations) = 1 THEN explanations[1]
  ELSE explanations[1] \o ". " \o join_sentences(Tail(explanations))

NoCorrectionsNeeded ==
  "No corrections needed. The text appears to be grammatically correct."

\* as generate_correction_explanation, but without the test for an empty list
generate_correction_explanation_unguarded(corrections) ==
  LET error_counts == count_error_types(<<>>, corrections)
      explanations ==
        <<"Found " \o ToString(Len(corrections)) \o " correction(s)">>
          \o [k \in 1..Len(error_counts) |-> error_clause(error_counts[k])]
  IN  join_sentences(explanations) \o "."

\* CorrectionAgent._generate_correction_explanation
generate_correction_explanation(corrections) ==
  IF corrections = <<>> THEN NoCorrectionsNeeded
  ELSE LET error_counts == count_error_types(<<>>, corrections)
           explanations ==
             <<"Found " \o ToString(Len(corrections)) \o " correction(s)">>
               \o [k \in 1..Len(error_counts) |-> error_clause(error_counts[k])]
       IN  join_sentences(explanations) \o "."

\* CorrectionAgent._extract_grammar_rules: the set `rules`
extract_grammar_rules(corrections) ==
  {grammar_rules_table[corrections[k].error_type] :
     k \in {j \in 1..Len(corrections) :
              corrections[j].error_type \in DOMAIN grammar_rules_table}}
  \cup
  {corrections[k].rule_explanation :
     k \in {j \in 1..Len(corrections) :
              /\ corrections[j].rule_explanation # ""
              /\ Len(corrections[j].rule_explanation) < 100}}

\* the example string of one correction ("->" stands for the arrow character)
correction_example(correction) ==
  "'" \o correction.original \o "' -> '" \o correction.corrected \o "'"

\* CorrectionAgent._generate_correction_examples
generate_correction_examples(corrections) ==
  LET first == SubSeq(corrections, 1, Min(3, Len(corrections)))
      shown(c) == c.original # "" /\ c.corrected # "" /\ c.original # c.corrected
      examples == SelectSeq(first, shown)
  IN  [k \in 1..Len(examples) |-> correction_example(examples[k])]

RECURSIVE sum_confidence(_)
sum_confidence(corrections) ==
  IF corrections = <<>> THEN 0
  ELSE Head(corrections).confidence + sum_confidence(Tail(corrections))

\* as calculate_confidence_score, but the score is the first edit's confidence
calculate_confidence_score_of_first(corrections) ==
  IF corrections = <<>> THEN [raised |-> "", num |-> 100, den |-> 1]
  ELSE Divide(corrections[1].confidence, 1)

\* as calculate_confidence_score, but without the test for an empty list
calculate_confidence_score_unguarded(corrections) ==
  Divide(sum_confidence(corrections), Len(corrections))

\* CorrectionAgent._calculate_confidence_score: a fraction of hundredths
calculate_confidence_score(corrections) ==
  IF corrections = <<>> THEN [raised |-> "", num |-> 100, den |-> 1]
  ELSE Divide(sum_confidence(corrections), Len(corrections))

(***************************************************************************)
(* What the collaborators can do in one call.                              *)
(***************************************************************************)
\* a rule of the rule checker: identifier, category and message of its matches
AgreementRule ==
  [ruleId |-> "HE_VERB_AGR", category |-> "GRAMMAR",
   message |-> "The verb does not agree with the subject."]

\* a match whose category is None: its conversion raises
BrokenRule ==
  [ruleId |-> "HE_VERB_AGR", category |-> None,
   message |-> "The verb does not agree with the subject."]

\* a rule of the spelling category
SpellingRule ==
  [ruleId |-> "SPELL", category |-> "TYPOS",
   message |-> "Possible spelling mistake found."]

\* the replacement lists of a match: none, or one suggestion
ReplacementLists == {<<>>, <<"b">>}

\* the lengths of the spans a match flags: an insertion point, one
\* character, two characters
ErrorLengths == {0, 1, 2}

\* the matches with offset 0..maxOffset
MatchesUpTo(maxOffset, rules) ==
  {[offset |-> o, errorLength |-> n, replacements |-> r,
    ruleId |-> k.ruleId, category |-> k.category, message |-> k.message] :
     o \in 0..maxOffset, n \in ErrorLengths, r \in ReplacementLists, k \in rules}

\* one broken match
BrokenMatch ==
  [offset |-> 0, errorLength |-> 1, replacements |-> <<"b">>,
   ruleId |-> BrokenRule.ruleId, category |-> BrokenRule.category,
   message |-> BrokenRule.message]

\* what the rule checker can do in one call, reporting at most n matches
LanguageToolOutcomes(matches, n) ==
  {[available |-> FALSE, check_raises |-> FALSE, matches |-> <<>>],
   [available |-> TRUE, check_raises |-> TRUE, matches |-> <<>>]}
  \cup {[available |-> TRUE, check_raises |-> FALSE, matches |-> ms] :
          ms \in SeqsUpTo(matches, n)}

\* what the generative model can do in one call
T5Outcomes(generated) ==
  {[available |-> FALSE, raises |-> FALSE, results |-> <<>>],
   [available |-> TRUE, raises |-> TRUE, results |-> <<>>],
   [available |-> TRUE, raises |-> FALSE, results |-> <<>>]}
  \cup {[available |-> TRUE, raises |-> FALSE, results |-> <<g>>] : g \in generated}

\* the texts the generative model returns: at most maxWords words, bare, or
\* with the prompt echoed before them, or with a space after them
GeneratedTexts(maxWords) ==
  LET plain == {Join(ws) : ws \in SeqsUpTo(RewriteWords, maxWords)}
  IN  plain \cup {PromptPrefix \o g : g \in plain} \cup {g \o SP : g \in plain}

(***************************************************************************)
(* The state of one correction request.                                    *)
(***************************************************************************)
VARIABLES
  pc,                 \* where the request is
  request_text,       \* request.text, until the agent has cleaned it
  original_text,      \* the cleaned text
  t5_status,          \* how the call of the generative model ended
  t5_corrected,       \* the value _correct_with_t5 returned
  lt_status,          \* how the call of the rule checker ended
  lt_matches,         \* `matches`: what language_tool.check returned
  lt_corrections,     \* the value _correct_with_languagetool returned
  merged_corrections, \* the value _merge_corrections returned
  corrected_text,     \* the value _apply_corrections returned
  response,           \* explanation, grammar rules, examples, confidence score
  error,              \* the exception that ended the request, "" when none
  status_code         \* the HTTP status the client receives, 0 until there is one

(***************************************************************************)
(* The process-lifetime stores beside the correction request: the history  *)
(* log, the phrasal-verb data and the model manager's caches.              *)
(***************************************************************************)
VARIABLES
  history_storage,    \* history.py, history_storage: the entries, in list order
  history_id_counter, \* history.py, history_id_counter
  history_call,       \* the last call on the history store and its status
  removed_ids,        \* history variable: the ids of the entries removed so far
  phrasal_verbs_data, \* PhrasalVerbAgent.phrasal_verbs_data: status and progress
  verb_call,          \* the last call of update_phrasal_verb_progress
  models,             \* ModelManager.models: the keys that hold a model
  tokenizers,         \* ModelManager.tokenizers: the keys that hold a tokenizer
  pipelines,          \* ModelManager.pipelines: the keys that hold a pipeline
  load_model_cache,   \* the memo of lru_cache around load_model, per key
  manager_call        \* the last call on the model manager and what it returned

request_vars == <<pc, request_text, original_text, t5_status, t5_corrected, lt_status,
                  lt_matches, lt_corrections, merged_corrections, corrected_text,
                  response, error, status_code>>

history_vars == <<history_storage, history_id_counter, history_call, removed_ids>>

verb_vars == <<phrasal_verbs_data, verb_call>>

manager_vars == <<models, tokenizers, pipelines, load_model_cache, manager_call>>

vars == <<request_vars, history_vars, verb_vars, manager_vars>>

(***************************************************************************)
(* The correction endpoint's status (api/correction.py, correct_text).     *)
(***************************************************************************)
\* CorrectionAgent.correct_text, lines 101-104: whatever is raised inside the
\* agent is caught and raised again as a plain Exception
correct_text_raises(exception) == "Exception"

\* the endpoint's handlers, lines 63-70: a ValueError gives the validation
\* status, any other exception the model-error status
endpoint_status_code(exception) == IF exception = "ValueError" THEN 422 ELSE 500

(***************************************************************************)
(* The history log (api/history.py).                                       *)
(***************************************************************************)
\* no more entries are added once the counter has passed this id
MaxHistoryId == 4

\* the sections under which interactions are saved
HistorySections == {"translation", "correction"}

\* the values of the `section` query parameter: absent, empty, or a section
SectionParameters == {None, ""} \cup HistorySections

\* as get_next_history_id, but the counter stays where it is
get_next_history_id_without_increment(counter) ==
  [current_id |-> counter, history_id_counter |-> counter]

\* get_next_history_id: the id it returns and the counter it leaves
get_next_history_id(counter) ==
  [current_id |-> counter, history_id_counter |-> counter + 1]

\* delete_history_entry: the first entry with the id is popped; without one the
\* status is 404
RECURSIVE without_first(_, _)
without_first(storage, entry_id) ==
  IF storage = <<>> THEN <<>>
  ELSE IF Head(storage).id = entry_id THEN Tail(storage)
  ELSE <<Head(storage)>> \o without_first(Tail(storage), entry_id)

delete_history_entry(storage, entry_id) ==
  IF \E k \in 1..Len(storage) : storage[k].id = entry_id
    THEN [status_code |-> 200, history_storage |-> without_first(storage, entry_id)]
    ELSE [status_code |-> 404, history_storage |-> storage]

\* as clear_history, but the whole store is cleared without confirmation
clear_history_unconfirmed(storage, section, confirm) ==
  LET kept(entry) == entry.section # section
  IN  IF section # None /\ section # ""
        THEN [status_code |-> 200, history_storage |-> SelectSeq(storage, kept)]
        ELSE [status_code |-> 200, history_storage |-> <<>>]

\* clear_history: `if section:` is false for an absent and for an empty
\* parameter
clear_history(storage, section, confirm) ==
  LET kept(entry) == entry.section # section
  IN  IF section # None /\ section # ""
        THEN [status_code |-> 200, history_storage |-> SelectSeq(storage, kept)]
      ELSE IF confirm
        THEN [status_code |-> 200, history_storage |-> <<>>]
      ELSE [status_code |-> 400, history_storage |-> storage]

\* the ids of the entries of a store
IdsOf(storage) == {storage[k].id : k \in 1..Len(storage)}

HistoryInit ==
  /\ history_storage = <<>>
  /\ history_id_counter = 1
  /\ history_call = [op |-> "none", section |-> None, confirm |-> FALSE,
                     entry_id |-> 0, status_code |-> 0]
  /\ removed_ids = {}

(***************************************************************************)
(* The phrasal-verb data (PhrasalVerbAgent.update_phrasal_verb_progress).  *)
(* A mastery level or an accuracy is a fraction num/den with den > 0.      *)
(***************************************************************************)
\* the largest number of attempts and of correct answers in a request
MaxAttempts == 5

\* the verbs of the agent's data, and the ids a request can name
VerbIds == {1}
RequestedVerbIds == {1, 2}

VerbStatuses == {"pending", "in_progress", "learned"}

\* the mastery levels a request can carry: PhrasalVerbProgress admits 0..1
MasteryLevels ==
  {[num |-> 0, den |-> 1], [num |-> 1, den |-> 2], [num |-> 4, den |-> 5],
   [num |-> 1, den |-> 1]}

\* PhrasalVerbProgress of a request: any integers, a mastery level in 0..1
Progresses ==
  [attempts : (0 - 1)..MaxAttempts, correct_answers : (0 - 1)..MaxAttempts,
   mastery_level : MasteryLevels]

\* PhrasalVerbUpdateRequest: a valid status and an optional progress (no
\* element, or one)
UpdateRequests == [status : VerbStatuses, progress : SeqsUpTo(Progresses, 1)]

\* fraction f is at least num/den
AtLeast(f, num, den) == f.num * den >= num * f.den

\* min(1.0, correct_answers / attempts), for attempts > 0
capped_accuracy(correct_answers, attempts) ==
  IF correct_answers >= attempts THEN [num |-> 1, den |-> 1]
  ELSE [num |-> correct_answers, den |-> attempts]

\* lines 392-399: the progress stored after the request's progress is taken
\* over and the mastery level is recomputed
updated_progress(progress, update_request) ==
  LET taken == IF update_request.progress # <<>> THEN update_request.progress[1]
               ELSE progress
  IN  IF taken.attempts > 0
        THEN [taken EXCEPT !.mastery_level =
                capped_accuracy(taken.correct_answers, taken.attempts)]
        ELSE taken

\* as auto_status, but only the mastery level decides "in_progress"
auto_status_by_mastery_only(status, progress) ==
  IF AtLeast(progress.mastery_level, 4, 5) /\ progress.attempts >= 3 THEN "learned"
  ELSE IF AtLeast(progress.mastery_level, 1, 2) THEN "in_progress"
  ELSE status

\* lines 402-406: the status after the automatic update
auto_status(status, progress) ==
  IF AtLeast(progress.mastery_level, 4, 5) /\ progress.attempts >= 3 THEN "learned"
  ELSE IF AtLeast(progress.mastery_level, 1, 2) \/ progress.attempts > 0
    THEN "in_progress"
  ELSE status

\* line 409: PhrasalVerbProgress(**progress) raises for a mastery level
\* outside 0..1
progress_is_invalid(progress) ==
  progress.mastery_level.num < 0
    \/ progress.mastery_level.num > progress.mastery_level.den

\* update_phrasal_verb_progress on the data of one verb: the data it leaves
\* and whether it raised.  The data are changed in place before the response
\* is built.
update_phrasal_verb_progress(verb_data, update_request) ==
  LET progress == updated_progress(verb_data.progress, update_request)
  IN  [verb_data |-> [status |-> auto_status(update_request.status, progress),
                      progress |-> progress],
       raised |-> progress_is_invalid(progress)]

VerbsInit ==
  /\ phrasal_verbs_data =
       [id \in VerbIds |->
          [status |-> "pending",
           progress |-> [attempts |-> 0, correct_answers |-> 0,
                         mastery_level |-> [num |-> 0, den |-> 1]]]]
  /\ verb_call = [verb_id |-> 0, status |-> "", status_code |-> 0]

(***************************************************************************)
(* The model manager (utils/model_manager.py).                             *)
(***************************************************************************)
\* keys of model_configs, and a key that is not configured
ConfiguredModels == {"t5-grammar", "nllb-200"}
ModelKeys == ConfiguredModels \cup {"unknown"}

\* the body of load_model, run when the memo has no entry for the key: what
\* it returns and the dictionaries it leaves; `loads` tells whether the
\* tokenizer and the model can be loaded
load_model_body(ms, ts, model_key, loads) ==
  IF model_key \notin ConfiguredModels
    THEN [result |-> None, models |-> ms, tokenizers |-> ts]
  ELSE IF model_key \in ms
    THEN [result |-> "model", models |-> ms, tokenizers |-> ts]
  ELSE IF loads
    THEN [result |-> "model", models |-> ms \cup {model_key},
          tokenizers |-> ts \cup {model_key}]
  ELSE [result |-> None, models |-> ms, tokenizers |-> ts]

\* load_model behind lru_cache: a key the memo knows gets the memoised value
\* and the body does not run; otherwise the body runs and its value is
\* memoised, None included
load_model(cache, ms, ts, model_key, loads) ==
  IF cache[model_key] # "empty"
    THEN [result |-> cache[model_key], models |-> ms, tokenizers |-> ts,
          load_model_cache |-> cache]
    ELSE LET body == load_model_body(ms, ts, model_key, loads)
         IN  [result |-> body.result, models |-> body.models,
              tokenizers |-> body.tokenizers,
              load_model_cache |-> [cache EXCEPT ![model_key] = body.result]]

\* get_pipeline: `builds` tells whether pipeline(...) returns
get_pipeline(cache, ms, ts, ps, model_key, loads, builds) ==
  IF model_key \in ps
    THEN [result |-> "pipeline", models |-> ms, tokenizers |-> ts, pipelines |-> ps,
          load_model_cache |-> cache]
    ELSE LET loaded == load_model(cache, ms, ts, model_key, loads)
             made == loaded.result # None /\ model_key \in loaded.tokenizers /\ builds
         IN  [result |-> IF made THEN "pipeline" ELSE None,
              models |-> loaded.models,
              tokenizers |-> loaded.tokenizers,
              pipelines |-> IF made THEN ps \cup {model_key} ELSE ps,
              load_model_cache |-> loaded.load_model_cache]

\* clear_cache: the dictionaries without one key, or empty; `if model_key:`
cleared(keys, model_key) ==
  IF model_key # None /\ model_key # "" THEN keys \ {model_key} ELSE {}

ManagerInit ==
  /\ models = {}
  /\ tokenizers = {}
  /\ pipelines = {}
  /\ load_model_cache = [k \in ModelKeys |-> "empty"]
  /\ manager_call = [op |-> "none", model_key |-> None, loads |-> FALSE,
                     builds |-> FALSE, result |-> None]

\* the stores when the process starts
StoresInit == HistoryInit /\ VerbsInit /\ ManagerInit

NoResponse == [explanation |-> "", grammar_rules |-> {}, examples |-> <<>>,
               confidence_score |-> [raised |-> "", num |-> 0, den |-> 1]]

\* the state when a request with one of the texts arrives
InitWith(texts) ==
  /\ pc = "received"
  /\ request_text \in texts
  /\ original_text = ""
  /\ t5_status = "not_called"
  /\ t5_corrected = ""
  /\ lt_status = "not_called"
  /\ lt_matches = <<>>
  /\ lt_corrections = <<>>
  /\ merged_corrections = <<>>
  /\ corrected_text = ""
  /\ response = NoResponse
  /\ error = ""
  /\ status_code = 0
  /\ StoresInit

\* no correction request is being handled
NoRequest ==
  /\ pc = "idle"
  /\ request_text = ""
  /\ original_text = ""
  /\ t5_status = "not_called"
  /\ t5_corrected = ""
  /\ lt_status = "not_called"
  /\ lt_matches = <<>>
  /\ lt_corrections = <<>>
  /\ merged_corrections = <<>>
  /\ corrected_text = ""
  /\ response = NoResponse
  /\ error = ""
  /\ status_code = 0

\* the stores are left alone
StoresUnchanged == UNCHANGED <<history_vars, verb_vars, manager_vars>>

\* CorrectionRequest.validate_text: a blank text is rejected, any other is
\* trimmed
ValidateRequest ==
  /\ pc = "received"
  /\ IF validate_text_rejects(request_text)
       THEN /\ pc' = "rejected"
            /\ error' = "ValidationError"
            /\ status_code' = 422
            /\ UNCHANGED request_text
       ELSE /\ pc' = "validated"
            /\ request_text' = validate_text(request_text)
            /\ UNCHANGED <<error, status_code>>
  /\ UNCHANGED <<original_text, t5_status, t5_corrected, lt_status, lt_matches,
                 lt_corrections, merged_corrections, corrected_text, response>>
  /\ StoresUnchanged

\* as CleanText, but an empty cleaned text is passed on
CleanText_without_check ==
  /\ pc = "validated"
  /\ original_text' = clean_text(request_text)
  /\ request_text' = ""
  /\ pc' = "cleaned"
  /\ UNCHANGED <<t5_status, t5_corrected, lt_status, lt_matches, lt_corrections,
                 merged_corrections, corrected_text, response, error, status_code>>
  /\ StoresUnchanged

\* correct_text, lines 52-55: the text is cleaned; an empty one raises
\* ValueError.  The request text is not followed further (the response's
\* echo of the query is not modelled).
CleanText ==
  /\ pc = "validated"
  /\ original_text' = clean_text(request_text)
  /\ request_text' = ""
  /\ pc' = IF original_text' = "" THEN "failed" ELSE "cleaned"
  /\ error' = IF original_text' = "" THEN "ValueError" ELSE ""
  /\ status_code' = IF original_text' = ""
                      THEN endpoint_status_code(correct_text_raises("ValueError"))
                      ELSE status_code
  /\ UNCHANGED <<t5_status, t5_corrected, lt_status, lt_matches, lt_corrections,
                 merged_corrections, corrected_text, response>>
  /\ StoresUnchanged

\* correct_text, line 58: the call of _correct_with_t5
CorrectWithT5(outcomes) ==
  /\ pc = "cleaned"
  /\ \E t5 \in outcomes :
       /\ t5_corrected' = correct_with_t5(original_text, t5)
       /\ t5_status' = IF ~t5.available THEN "unavailable"
                       ELSE IF t5.raises THEN "raised"
                       ELSE "returned"
  /\ pc' = "t5_done"
  /\ UNCHANGED <<request_text, original_text, lt_status, lt_matches, lt_corrections,
                 merged_corrections, corrected_text, response, error, status_code>>
  /\ StoresUnchanged

\* correct_text, line 59: the call of _correct_with_languagetool.  The rule
\* checker reports offsets up to one past the end of the text.
CorrectWithLanguageTool(outcomes) ==
  /\ pc = "t5_done"
  /\ \E lt \in outcomes :
       /\ \A i \in 1..Len(lt.matches) : lt.matches[i].offset <= Len(original_text) + 1
       /\ lt_matches' = IF lt.available /\ ~lt.check_raises THEN lt.matches ELSE <<>>
       /\ lt_corrections' = correct_with_languagetool(original_text, lt)
       /\ lt_status' = IF ~lt.available THEN "unavailable"
                       ELSE IF ~languagetool_succeeds(lt) THEN "failed"
                       ELSE "returned"
  /\ pc' = "lt_done"
  /\ UNCHANGED <<request_text, original_text, t5_status, t5_corrected,
                 merged_corrections, corrected_text, response, error, status_code>>
  /\ StoresUnchanged

\* as MergeAndRespond, but the merge does not wait for the rule checker: it
\* also starts when only the call of the generative model has returned
MergeAndRespond_without_waiting ==
  /\ pc \in {"t5_done", "lt_done"}
  /\ merged_corrections' = merge_corrections(original_text, t5_corrected, lt_corrections)
  /\ corrected_text' = apply_corrections(original_text, merged_corrections')
  /\ pc' = "done"
  /\ response' =
       [explanation |-> generate_correction_explanation(merged_corrections'),
        grammar_rules |-> extract_grammar_rules(merged_corrections'),
        examples |-> generate_correction_examples(merged_corrections'),
        confidence_score |-> calculate_confidence_score(merged_corrections')]
  /\ status_code' = 200
  /\ UNCHANGED <<request_text, original_text, t5_status, t5_corrected, lt_status,
                 lt_matches, lt_corrections, error>>
  /\ StoresUnchanged

\* correct_text, lines 62-98: the calls of _merge_corrections and
\* _apply_corrections, then explanation, grammar rules, examples and
\* confidence score; an error raised by one of them fails the request.  These
\* run without a suspension point, as one step.
MergeAndRespond ==
  /\ pc = "lt_done"
  /\ merged_corrections' = merge_corrections(original_text, t5_corrected, lt_corrections)
  /\ corrected_text' = apply_corrections(original_text, merged_corrections')
  /\ LET score == calculate_confidence_score(merged_corrections')
     IN  IF score.raised # ""
           THEN /\ pc' = "failed"
                /\ error' = score.raised
                /\ status_code' = endpoint_status_code(correct_text_raises(score.raised))
                /\ UNCHANGED response
           ELSE /\ pc' = "done"
                /\ status_code' = 200
                /\ UNCHANGED error
                /\ response' =
                     [explanation |-> generate_correction_explanation(merged_corrections'),
                      grammar_rules |-> extract_grammar_rules(merged_corrections'),
                      examples |-> generate_correction_examples(merged_corrections'),
                      confidence_score |-> score]
  /\ UNCHANGED <<request_text, original_text, t5_status, t5_corrected, lt_status,
                 lt_matches, lt_corrections>>
  /\ StoresUnchanged

(***************************************************************************)
(* Specification Spec: short texts, at most MaxMatches matches a call.     *)
(***************************************************************************)
RequestTexts == Strings(TextChars, 1, MaxTextLen)

ModelOutcomes == T5Outcomes(GeneratedTexts(MaxRewriteWords))

Matches == MatchesUpTo(MaxTextLen, {AgreementRule}) \cup {BrokenMatch}

CheckerOutcomes == LanguageToolOutcomes(Matches, MaxMatches)

Init == InitWith(RequestTexts)

Next ==
  \/ ValidateRequest
  \/ CleanText
  \/ CorrectWithT5(ModelOutcomes)
  \/ CorrectWithLanguageTool(CheckerOutcomes)
  \/ MergeAndRespond

Spec == Init /\ [][Next]_vars

(***************************************************************************)
(* Specification SpecPairs: shorter texts, at most MaxPairMatches matches  *)
(* a call.                                                                 *)
(***************************************************************************)
PairRequestTexts == Strings(TextChars, 1, MaxPairTextLen)

PairMatches == MatchesUpTo(MaxPairTextLen, {AgreementRule}) \cup {BrokenMatch}

PairCheckerOutcomes == LanguageToolOutcomes(PairMatches, MaxPairMatches)

InitPairs == InitWith(PairRequestTexts)

NextPairs ==
  \/ ValidateRequest
  \/ CleanText
  \/ CorrectWithT5(ModelOutcomes)
  \/ CorrectWithLanguageTool(PairCheckerOutcomes)
  \/ MergeAndRespond

SpecPairs == InitPairs /\ [][NextPairs]_vars

(***************************************************************************)
(* Specification SpecLong: texts long enough to hold a null byte between   *)
(* two words, at most one match a call.                                    *)
(***************************************************************************)
LongRequestTexts == Strings(TextChars, 1, MaxLongTextLen)

LongMatches == MatchesUpTo(MaxLongTextLen, {AgreementRule}) \cup {BrokenMatch}

LongCheckerOutcomes == LanguageToolOutcomes(LongMatches, 1)

InitLong == InitWith(LongRequestTexts)

NextLong ==
  \/ ValidateRequest
  \/ CleanText
  \/ CorrectWithT5(ModelOutcomes)
  \/ CorrectWithLanguageTool(LongCheckerOutcomes)
  \/ MergeAndRespond

SpecLong == InitLong /\ [][NextLong]_vars

(***************************************************************************)
(* Properties.  The span notions below are stated on their own, not        *)
(* through the operators that model the code.                              *)
(***************************************************************************)
(* Specification SpecEdits: texts of one word, matches of two rules that   *)
(* each flag one character, at most MaxEditsMatches matches a call.        *)
(***************************************************************************)
EditsRequestTexts == Strings({"a"}, 1, MaxEditsTextLen)

EditsModelOutcomes == T5Outcomes(GeneratedTexts(1))

EditsMatches ==
  {m \in MatchesUpTo(MaxEditsTextLen - 1, {AgreementRule, SpellingRule}) :
     m.errorLength = 1}

EditsCheckerOutcomes == LanguageToolOutcomes(EditsMatches, MaxEditsMatches)

InitEdits == InitWith(EditsRequestTexts)

NextEdits ==
  \/ ValidateRequest
  \/ CleanText
  \/ CorrectWithT5(EditsModelOutcomes)
  \/ CorrectWithLanguageTool(EditsCheckerOutcomes)
  \/ MergeAndRespond

SpecEdits == InitEdits /\ [][NextEdits]_vars

(***************************************************************************)
(* Specification SpecExamples: the text "aaaa", matches that flag one of   *)
(* its characters and suggest a word (the same one, or another), at most   *)
(* MaxExampleMatches matches a call.                                       *)
(***************************************************************************)
ExamplesRequestTexts == {"aaaa"}

ExamplesMatches ==
  {[offset |-> o, errorLength |-> 1, replacements |-> <<w>>,
    ruleId |-> AgreementRule.ruleId, category |-> AgreementRule.category,
    message |-> AgreementRule.message] : o \in 0..3, w \in RewriteWords}

ExamplesCheckerOutcomes == LanguageToolOutcomes(ExamplesMatches, MaxExampleMatches)

InitExamples == InitWith(ExamplesRequestTexts)

NextExamples ==
  \/ ValidateRequest
  \/ CleanText
  \/ CorrectWithT5(EditsModelOutcomes)
  \/ CorrectWithLanguageTool(ExamplesCheckerOutcomes)
  \/ MergeAndRespond

SpecExamples == InitExamples /\ [][NextExamples]_vars

(***************************************************************************)
(* Specification SpecCategories: the text "a" and one match that flags it, *)
(* of any of the rule identifiers and categories below, with no, one, two  *)
(* or four replacements.                                                   *)
(***************************************************************************)
\* rule identifiers: without a keyword, with one, with two
CategoryRuleIds ==
  {"X", "Spell", "AGREEMENT", "PUNCT", "Capital", "ARTICLE", "PREPOSITION",
   "TENSE", "TENSE_SPELL", "ARTICLE_PUNCT", "TENSE_AGREEMENT"}

\* categories: those with a confidence of their own, and others
CategoryNames ==
  {"MISC", "GRAMMAR", "TYPOS", "STYLE", "Grammar", "Spelling", "PUNCTUATION",
   "CAPITALIZATION", "ARTICLE", "AGREEMENT"}

\* replacement lists of no, one, two and four suggestions
CategoryReplacementLists ==
  {<<>>, <<"b">>, <<"b", "b">>, <<"b", "b", "b", "b">>}

CategoriesRequestTexts == {"a"}

CategoriesMatches ==
  {[offset |-> 0, errorLength |-> 1, replacements |-> r,
    ruleId |-> id, category |-> c, message |-> AgreementRule.message] :
     r \in CategoryReplacementLists, id \in CategoryRuleIds, c \in CategoryNames}

CategoriesCheckerOutcomes == LanguageToolOutcomes(CategoriesMatches, 1)

InitCategories == InitWith(CategoriesRequestTexts)

NextCategories ==
  \/ ValidateRequest
  \/ CleanText
  \/ CorrectWithT5(EditsModelOutcomes)
  \/ CorrectWithLanguageTool(CategoriesCheckerOutcomes)
  \/ MergeAndRespond

SpecCategories == InitCategories /\ [][NextCategories]_vars

(***************************************************************************)
(* Specification SpecReplacements: the texts "ab" and "abc" and one match  *)
(* with no suggestion, one, or two different ones.                         *)
(***************************************************************************)
\* replacement lists of no suggestion, one, and two different ones
OrderedReplacementLists == {<<>>, <<"b">>, <<"b", "a">>, <<"a", "b">>}

ReplacementsRequestTexts == {"ab", "abc"}

ReplacementsMatches ==
  {[offset |-> o, errorLength |-> n, replacements |-> r,
    ruleId |-> AgreementRule.ruleId, category |-> AgreementRule.category,
    message |-> AgreementRule.message] :
     o \in 0..MaxTextLen, n \in ErrorLengths, r \in OrderedReplacementLists}

ReplacementsCheckerOutcomes == LanguageToolOutcomes(ReplacementsMatches, 1)

InitReplacements == InitWith(ReplacementsRequestTexts)

NextReplacements ==
  \/ ValidateRequest
  \/ CleanText
  \/ CorrectWithT5(EditsModelOutcomes)
  \/ CorrectWithLanguageTool(ReplacementsCheckerOutcomes)
  \/ MergeAndRespond

SpecReplacements == InitReplacements /\ [][NextReplacements]_vars

(***************************************************************************)
(* Specification SpecHistory: calls on the history log.                    *)
(***************************************************************************)
\* add_history_entry: a new entry with the next id is appended
AddHistoryEntry ==
  /\ history_id_counter <= MaxHistoryId
  /\ \E section \in HistorySections :
       LET next == get_next_history_id(history_id_counter)
       IN  /\ history_storage' =
                Append(history_storage, [id |-> next.current_id, section |-> section])
           /\ history_id_counter' = next.history_id_counter
           /\ history_call' = [op |-> "add", section |-> section, confirm |-> FALSE,
                               entry_id |-> next.current_id, status_code |-> 200]
  /\ UNCHANGED <<removed_ids, request_vars, verb_vars, manager_vars>>

\* the endpoint delete_history_entry
DeleteHistoryEntry ==
  /\ \E entry_id \in 1..MaxHistoryId :
       LET deleted == delete_history_entry(history_storage, entry_id)
       IN  /\ history_storage' = deleted.history_storage
           /\ history_call' = [op |-> "delete", section |-> None, confirm |-> FALSE,
                               entry_id |-> entry_id,
                               status_code |-> deleted.status_code]
  /\ removed_ids' = removed_ids \cup (IdsOf(history_storage) \ IdsOf(history_storage'))
  /\ UNCHANGED <<history_id_counter, request_vars, verb_vars, manager_vars>>

\* the endpoint clear_history
ClearHistory ==
  /\ \E section \in SectionParameters, confirm \in BOOLEAN :
       LET result == clear_history(history_storage, section, confirm)
       IN  /\ history_storage' = result.history_storage
           /\ history_call' = [op |-> "clear", section |-> section, confirm |-> confirm,
                               entry_id |-> 0, status_code |-> result.status_code]
  /\ removed_ids' = removed_ids \cup (IdsOf(history_storage) \ IdsOf(history_storage'))
  /\ UNCHANGED <<history_id_counter, request_vars, verb_vars, manager_vars>>

InitHistory == NoRequest /\ StoresInit

NextHistory ==
  \/ AddHistoryEntry
  \/ DeleteHistoryEntry
  \/ ClearHistory

SpecHistory == InitHistory /\ [][NextHistory]_vars

(***************************************************************************)
(* Specification SpecVerbs: progress updates of a phrasal verb.            *)
(***************************************************************************)
\* the endpoint update_phrasal_verb_progress and the agent's method: an
\* unknown verb and an invalid progress end in the agent's Exception, which
\* the endpoint answers with 500
UpdatePhrasalVerbProgress ==
  /\ \E verb_id \in RequestedVerbIds, update_request \in UpdateRequests :
       IF verb_id \notin DOMAIN phrasal_verbs_data
         THEN /\ verb_call' = [verb_id |-> verb_id, status |-> update_request.status,
                               status_code |-> 500]
              /\ UNCHANGED phrasal_verbs_data
         ELSE LET updated == update_phrasal_verb_progress(phrasal_verbs_data[verb_id],
                                                          update_request)
              IN  /\ phrasal_verbs_data' =
                       [phrasal_verbs_data EXCEPT ![verb_id] = updated.verb_data]
                  /\ verb_call' = [verb_id |-> verb_id, status |-> update_request.status,
                                   status_code |-> IF updated.raised THEN 500 ELSE 200]
  /\ UNCHANGED <<request_vars, history_vars, manager_vars>>

InitVerbs == NoRequest /\ StoresInit

NextVerbs == UpdatePhrasalVerbProgress

SpecVerbs == InitVerbs /\ [][NextVerbs]_vars

(***************************************************************************)
(* Specification SpecManager: calls on the model manager.                  *)
(***************************************************************************)
\* a call of load_model(model_key)
LoadModel ==
  /\ \E model_key \in ModelKeys, loads \in BOOLEAN :
       LET loaded == load_model(load_model_cache, models, tokenizers, model_key, loads)
       IN  /\ models' = loaded.models
           /\ tokenizers' = loaded.tokenizers
           /\ load_model_cache' = loaded.load_model_cache
           /\ manager_call' = [op |-> "load_model", model_key |-> model_key,
                               loads |-> loads, builds |-> FALSE,
                               result |-> loaded.result]
  /\ UNCHANGED <<pipelines, request_vars, history_vars, verb_vars>>

\* a call of get_pipeline(model_key)
GetPipeline ==
  /\ \E model_key \in ModelKeys, loads \in BOOLEAN, builds \in BOOLEAN :
       LET got == get_pipeline(load_model_cache, models, tokenizers, pipelines,
                               model_key, loads, builds)
       IN  /\ models' = got.models
           /\ tokenizers' = got.tokenizers
           /\ pipelines' = got.pipelines
           /\ load_model_cache' = got.load_model_cache
           /\ manager_call' = [op |-> "get_pipeline", model_key |-> model_key,
                               loads |-> loads, builds |-> builds,
                               result |-> got.result]
  /\ UNCHANGED <<request_vars, history_vars, verb_vars>>

\* a call of clear_cache, for one key or for all; the memo of load_model is
\* not part of what it clears
ClearCache ==
  /\ \E model_key \in ModelKeys \cup {None} :
       /\ models' = cleared(models, model_key)
       /\ tokenizers' = cleared(tokenizers, model_key)
       /\ pipelines' = cleared(pipelines, model_key)
       /\ manager_call' = [op |-> "clear_cache", model_key |-> model_key,
                           loads |-> FALSE, builds |-> FALSE, result |-> None]
  /\ UNCHANGED <<load_model_cache, request_vars, history_vars, verb_vars>>

InitManager == NoRequest /\ StoresInit

NextManager ==
  \/ LoadModel
  \/ GetPipeline
  \/ ClearCache

SpecManager == InitManager /\ [][NextManager]_vars

(***************************************************************************)
\* spans a and b overlap
Overlaps(a, b) == a.start < b.end /\ a.end > b.start

\* the span of edit e lies in the text
InBounds(e, text) == 0 <= e.start /\ e.start <= e.end /\ e.end <= Len(text)

\* the number of occurrences of e in the list
Occurrences(list, e) == Cardinality({k \in 1..Len(list) : list[k] = e})

\* the edits ordered by span: by start, then by end, ties in list order
RECURSIVE InsertBySpan(_, _)
InsertBySpan(sorted, e) ==
  IF sorted = <<>> THEN <<e>>
  ELSE LET last == sorted[Len(sorted)]
       IN  IF last.start < e.start \/ (last.start = e.start /\ last.end <= e.end)
             THEN Append(sorted, e)
             ELSE Append(InsertBySpan(SubSeq(sorted, 1, Len(sorted) - 1), e), last)

RECURSIVE OrderedBySpan(_)
OrderedBySpan(edits) ==
  IF edits = <<>> THEN <<>>
  ELSE InsertBySpan(OrderedBySpan(SubSeq(edits, 1, Len(edits) - 1)), edits[Len(edits)])

\* the text from position cursor on, with the spans of the span-ordered edits
\* replaced by their `corrected` strings and everything between them kept
RECURSIVE ReplacedFrom(_, _, _)
ReplacedFrom(text, ordered, cursor) ==
  IF ordered = <<>> THEN SubSeq(text, cursor + 1, Len(text))
  ELSE SubSeq(text, cursor + 1, Head(ordered).start)
         \o Head(ordered).corrected
         \o ReplacedFrom(text, Tail(ordered), Head(ordered).end)

\* the text with all spans replaced at once
ReplacedSimultaneously(text, edits) == ReplacedFrom(text, OrderedBySpan(edits), 0)

\* the edits are in the text, pairwise disjoint, and no two of them are
\* insertions at the same point: what replacing all spans at once needs
Separable(text, edits) ==
  /\ \A i \in 1..Len(edits) : InBounds(edits[i], text)
  /\ \A i, j \in 1..Len(edits) :
       i # j => /\ ~Overlaps(edits[i], edits[j])
                /\ ~(edits[i].start = edits[j].start /\ edits[i].end = edits[j].end)

\* C1: no two edits of the merged list have overlapping spans
C1_NoOverlapInMergedList ==
  pc = "done" =>
    \A i, j \in 1..Len(merged_corrections) :
      i # j => ~Overlaps(merged_corrections[i], merged_corrections[j])

\* C2: the corrected text is the original text with the spans of all merged
\* edits replaced at once by their `corrected` strings, the rest kept in order
C2_EveryEditLandsOnItsSpan ==
  (pc = "done" /\ Separable(original_text, merged_corrections)) =>
    corrected_text = ReplacedSimultaneously(original_text, merged_corrections)

\* C3: every merged edit has 0 <= start <= end <= len(original_text), and the
\* corrected text is the one obtained without the rule-checker edits whose
\* span leaves the text
C3_OutOfBoundsMatchDropped ==
  pc = "done" =>
    /\ \A i \in 1..Len(merged_corrections) :
         InBounds(merged_corrections[i], original_text)
    /\ LET inside(e) == InBounds(e, original_text)
       IN  corrected_text =
             apply_corrections(original_text,
               merge_corrections(original_text, t5_corrected,
                                 SelectSeq(lt_corrections, inside)))

\* C4: for a non-empty trimmed original text, the `original` of every merged
\* edit is the slice of the original text at the edit's span
C4_OriginalIsTheSlice ==
  (pc = "done" /\ original_text # "" /\ Strip(original_text) = original_text) =>
    \A i \in 1..Len(merged_corrections) :
      merged_corrections[i].original =
        SubSeq(original_text, merged_corrections[i].start + 1,
               Min(merged_corrections[i].end, Len(original_text)))

\* C5: every rule-checker edit passed to the merge is in the merged list
\* unchanged, as often as it was passed, whatever the model rewrote
C5_RuleEditsKept ==
  pc = "done" =>
    \A i \in 1..Len(lt_corrections) :
      Occurrences(merged_corrections, lt_corrections[i])
        = Occurrences(lt_corrections, lt_corrections[i])

\* a request whose rewrite yields a difference that overlaps a rule-checker edit
C5_Witness ==
  /\ pc = "done"
  /\ \E i \in 1..Len(lt_corrections) :
       \E d \in {find_text_differences(original_text, t5_corrected)[k] :
                   k \in 1..Len(find_text_differences(original_text, t5_corrected))} :
         Overlaps(d, lt_corrections[i])

\* C6: an edit taken from the model rewrite overlaps no other edit of the
\* merged list; a candidate at [7,12) overlaps a rule edit at [5,10)
C6_OverlappingCandidateDiscarded ==
  /\ has_overlapping_correction([start |-> 7, end |-> 12], <<[start |-> 5, end |-> 10]>>)
  /\ pc = "done" =>
       \A i, j \in 1..Len(merged_corrections) :
         (i # j /\ merged_corrections[i].source = "t5")
           => ~Overlaps(merged_corrections[i], merged_corrections[j])

\* a request with one difference discarded for its overlap and one accepted
C6_Witness ==
  /\ pc = "done"
  /\ \E k \in 1..Len(merged_corrections) : merged_corrections[k].source = "t5"
  /\ Len(lt_corrections) + Len(find_text_differences(original_text, t5_corrected))
       > Len(merged_corrections)

\* C7: the merged list is in ascending order of span start
C7_SortedByStart ==
  pc = "done" =>
    \A i \in 1..(Len(merged_corrections) - 1) :
      merged_corrections[i].start <= merged_corrections[i + 1].start

\* a request whose merged list the final sort had to reorder
C7_Witness ==
  /\ pc = "done"
  /\ merged_corrections # merge_unsorted(original_text, t5_corrected, lt_corrections)

\* the length change the edits before index i cause
RECURSIVE ShiftBefore(_, _)
ShiftBefore(edits, i) ==
  IF i <= 1 THEN 0
  ELSE ShiftBefore(edits, i - 1)
         + Len(edits[i - 1].corrected) - (edits[i - 1].end - edits[i - 1].start)

\* position i kept inside the text
Clamped(text, i) == Max(0, Min(i, Len(text)))

\* the text with the `corrected` of edits[i] replaced by its `original`, at
\* the place the span of edits[i] has in the corrected text
spliced_back(text, edits, i) ==
  LET from == edits[i].start + ShiftBefore(edits, i)
      to == from + Len(edits[i].corrected)
  IN  SubSeq(text, 1, Clamped(text, from))
        \o edits[i].original
        \o SubSeq(text, Clamped(text, to) + 1, Len(text))

\* the inverse edits applied to the corrected text, the last edit first
RECURSIVE RoundTrip(_, _, _)
RoundTrip(text, edits, i) ==
  IF i = 0 THEN text ELSE RoundTrip(spliced_back(text, edits, i), edits, i - 1)

\* C8: splicing every edit's `original` back in place of its `corrected`, at
\* its span shifted into the corrected text, recovers the original text; stated
\* for the merged lists whose spans all lie in the text, the claim's easiest case
C8_RoundTripRecoversOriginal ==
  (/\ pc = "done"
   /\ \A i \in 1..Len(merged_corrections) :
        InBounds(merged_corrections[i], original_text))
    => RoundTrip(corrected_text, merged_corrections, Len(merged_corrections))
         = original_text

\* C9: once both producers have returned, the merge, apply, explain,
\* grammar-rule, example and confidence steps raise nothing: the request does
\* not fail, and when it is done it holds a result
C9_StepsNeverRaise ==
  /\ lt_status # "not_called" => (pc \in {"lt_done", "done"} /\ error = "")
  /\ pc = "done" =>
       /\ response.explanation # ""
       /\ response.confidence_score.raised = ""
       /\ response.confidence_score.den > 0

\* a finished request with nothing to correct, and one with an edit whose span
\* leaves the text
C9_Witness ==
  /\ pc = "done"
  /\ \/ merged_corrections = <<>>
     \/ \E i \in 1..Len(merged_corrections) :
          ~InBounds(merged_corrections[i], original_text)

\* C10: a rule checker that is unavailable or fails contributes no edit, a
\* generative model that is unavailable or raises contributes the original
\* text, and neither fails the request
C10_FailureContributesNothing ==
  /\ lt_status \in {"unavailable", "failed"} => lt_corrections = <<>>
  /\ (t5_status \in {"unavailable", "raised"} /\ pc # "cleaned")
       => t5_corrected = original_text
  /\ (lt_status \in {"unavailable", "failed"} \/ t5_status \in {"unavailable", "raised"})
       => (pc \in {"t5_done", "lt_done", "done"} /\ error = "")

\* C11: a rewrite equal to the original text, or empty, adds no generative
\* edit: the merged list holds the rule-checker edits and nothing else
C11_NoRewriteNoGenerativeEdit ==
  (pc = "done" /\ (t5_corrected = original_text \/ t5_corrected = "")) =>
    /\ \A i \in 1..Len(merged_corrections) : merged_corrections[i].source # "t5"
    /\ Len(merged_corrections) = Len(lt_corrections)
    /\ \A i \in 1..Len(lt_corrections) :
         Occurrences(merged_corrections, lt_corrections[i])
           = Occurrences(lt_corrections, lt_corrections[i])

\* the model returned an empty rewrite while the rule checker found an edit
C11_Witness ==
  /\ pc = "done"
  /\ t5_status = "returned"
  /\ t5_corrected = ""
  /\ lt_corrections # <<>>

\* the rule-checker edits are pairwise non-overlapping
RuleEditsDisjoint ==
  \A i, j \in 1..Len(lt_corrections) :
    i # j => ~Overlaps(lt_corrections[i], lt_corrections[j])

\* C12: when the rule edits are pairwise non-overlapping and the rewrite is
\* the original text, the merged list is the rule edits in ascending order of
\* start: the same elements, none added, none left out
C12_DisjointRuleEditsSorted ==
  (pc = "done" /\ RuleEditsDisjoint /\ t5_corrected = original_text) =>
    /\ Len(merged_corrections) = Len(lt_corrections)
    /\ \A i \in 1..Len(merged_corrections) :
         /\ merged_corrections[i].source = "languagetool"
         /\ Occurrences(lt_corrections, merged_corrections[i])
              = Occurrences(merged_corrections, merged_corrections[i])
    /\ \A i, j \in 1..Len(merged_corrections) :
         i < j => merged_corrections[i].start <= merged_corrections[j].start

\* two disjoint rule edits reported in descending order of start, and a
\* rewrite equal to the text
C12_Witness ==
  /\ pc = "done"
  /\ RuleEditsDisjoint
  /\ t5_corrected = original_text
  /\ Len(lt_corrections) >= 2
  /\ lt_corrections[1].start > lt_corrections[2].start

\* the words of the text are separated by single spaces, with none around
SingleSpaced(text) == text = Join(Split(text))

\* the offset in a single-spaced text of its i-th word (1-based)
RECURSIVE TokenStart(_, _)
TokenStart(words, i) ==
  IF i = 1 THEN 0 ELSE TokenStart(words, i - 1) + Len(words[i - 1]) + 1

\* with no rule edit, a single-spaced text and a rewrite of as many words: one
\* generative edit for each index at which the words differ, on the character
\* range of the original word, and the corrected text is the rewrite's words
\* joined by single spaces
OneEditPerDifferingToken ==
  (/\ pc = "done"
   /\ lt_corrections = <<>>
   /\ SingleSpaced(original_text)
   /\ Len(Split(t5_corrected)) = Len(Split(original_text))) =>
    LET original_words == Split(original_text)
        corrected_words == Split(t5_corrected)
        differing == {i \in 1..Len(original_words) :
                        original_words[i] # corrected_words[i]}
    IN  /\ Len(merged_corrections) = Cardinality(differing)
        /\ \A i \in differing :
             \E k \in 1..Len(merged_corrections) :
               /\ merged_corrections[k].source = "t5"
               /\ merged_corrections[k].original = original_words[i]
               /\ merged_corrections[k].corrected = corrected_words[i]
               /\ merged_corrections[k].start = TokenStart(original_words, i)
               /\ merged_corrections[k].end
                    = TokenStart(original_words, i) + Len(original_words[i])
               /\ SubSeq(original_text, merged_corrections[k].start + 1,
                         merged_corrections[k].end) = original_words[i]
        /\ corrected_text = Join(corrected_words)

\* the merged list of "He go home" rewritten as "He goes home", no rule match
HeGoHomeEdits == merge_corrections("He go home", "He goes home", <<>>)

\* the corrected text of the same
HeGoHomeCorrected == apply_corrections("He go home", HeGoHomeEdits)

\* the example gives one generative edit go -> goes at [start, end), of
\* confidence 0.7, and the corrected text "He goes home"
HeGoHomeGives(start, end) ==
  /\ Len(HeGoHomeEdits) = 1
  /\ HeGoHomeEdits[1].source = "t5"
  /\ HeGoHomeEdits[1].original = "go"
  /\ HeGoHomeEdits[1].corrected = "goes"
  /\ HeGoHomeEdits[1].confidence = 70
  /\ HeGoHomeEdits[1].start = start
  /\ HeGoHomeEdits[1].end = end
  /\ HeGoHomeCorrected = "He goes home"

\* C13 (amended): one generative edit per differing token, on the token's
\* character range; "He go home" / "He goes home" gives one edit at [3,5)
\* and the corrected text "He goes home" (the example is evaluated once, in
\* the states where a request arrives)
C13_TokenDiffEdits ==
  /\ pc = "received" => HeGoHomeGives(3, 5)
  /\ OneEditPerDifferingToken

\* C13 as stated: the same, with the example's edit at [2,4)
C13_TokenDiffEditsAsStated ==
  /\ pc = "received" => HeGoHomeGives(2, 4)
  /\ OneEditPerDifferingToken

\* a two-word text whose second word the model rewrote, with no rule edit
C13_Witness ==
  /\ pc = "done"
  /\ lt_corrections = <<>>
  /\ SingleSpaced(original_text)
  /\ Len(Split(original_text)) = 2
  /\ Len(Split(t5_corrected)) = 2
  /\ merged_corrections # <<>>
  /\ merged_corrections[Len(merged_corrections)].start = 2

\* s begins with prefix
BeginsWith(s, prefix) ==
  Len(s) >= Len(prefix) /\ SubSeq(s, 1, Len(prefix)) = prefix

\* C14: with an empty merged list the corrected text is the original text,
\* and the explanation is the fixed message beginning "No corrections needed"
C14_NoEditsNoChange ==
  (pc = "done" /\ merged_corrections = <<>>) =>
    /\ corrected_text = original_text
    /\ BeginsWith(response.explanation, "No corrections needed")
    /\ response.explanation
         = "No corrections needed. The text appears to be grammatically correct."

\* both producers returned and nothing was to be corrected
C14_Witness ==
  /\ pc = "done"
  /\ merged_corrections = <<>>
  /\ lt_status = "returned"
  /\ t5_status = "returned"

\* the sum of the confidences of the first n edits, in hundredths
RECURSIVE TotalConfidence(_, _)
TotalConfidence(edits, n) ==
  IF n = 0 THEN 0 ELSE TotalConfidence(edits, n - 1) + edits[n].confidence

\* the score of two edits of confidence 0.8 and 0.6
ScoreOfEightyAndSixty ==
  calculate_confidence_score(<<[confidence |-> 80], [confidence |-> 60]>>)

\* C15: the confidence score is the arithmetic mean of the merged edits'
\* confidences, 1.0 for an empty list, between the smallest and the largest
\* confidence, and 0.7 for confidences 0.8 and 0.6 (in hundredths)
C15_ScoreIsTheMean ==
  /\ ScoreOfEightyAndSixty.raised = ""
  /\ ScoreOfEightyAndSixty.num = 70 * ScoreOfEightyAndSixty.den
  /\ pc = "done" =>
       LET score == response.confidence_score
           n == Len(merged_corrections)
       IN  /\ score.raised = ""
           /\ score.den > 0
           /\ IF n = 0 THEN score.num = 100 * score.den
              ELSE /\ score.num * n = TotalConfidence(merged_corrections, n) * score.den
                   /\ \E i \in 1..n :
                        merged_corrections[i].confidence * score.den <= score.num
                   /\ \E i \in 1..n :
                        merged_corrections[i].confidence * score.den >= score.num
                   /\ \A i \in 1..n :
                        (\A j \in 1..n : merged_corrections[i].confidence
                                            <= merged_corrections[j].confidence)
                          => merged_corrections[i].confidence * score.den <= score.num
                   /\ \A i \in 1..n :
                        (\A j \in 1..n : merged_corrections[i].confidence
                                            >= merged_corrections[j].confidence)
                          => merged_corrections[i].confidence * score.den >= score.num

\* a merged list of two edits of different confidence
C15_Witness ==
  /\ pc = "done"
  /\ Len(merged_corrections) = 2
  /\ merged_corrections[1].confidence # merged_corrections[2].confidence

\* the example of an edit ("->" stands for the arrow character)
ExampleOf(e) == "'" \o e.original \o "' -> '" \o e.corrected \o "'"

\* the edits of the list whose `original` differs from `corrected`
DifferingEdits(edits) ==
  LET differs(e) == e.original # e.corrected IN SelectSeq(edits, differs)

\* C16: the examples are those of the first three merged edits whose
\* `original` differs from `corrected`, in list order: three examples whenever
\* three such edits exist.  Stated for merged lists of pairwise disjoint
\* edits in which no `original` and no `corrected` is empty.
C16_FirstThreeDifferingEdits ==
  (/\ pc = "done"
   /\ \A i, j \in 1..Len(merged_corrections) :
        i # j => ~Overlaps(merged_corrections[i], merged_corrections[j])
   /\ \A i \in 1..Len(merged_corrections) :
        merged_corrections[i].original # "" /\ merged_corrections[i].corrected # "")
    => LET differing == DifferingEdits(merged_corrections)
       IN  response.examples
             = [k \in 1..Min(3, Len(differing)) |-> ExampleOf(differing[k])]

\* the error types of the merged list
MergedErrorTypes ==
  {merged_corrections[i].error_type : i \in 1..Len(merged_corrections)}

\* the messages the rule checker supplied with its matches
RuleCheckerMessages == {lt_matches[i].message : i \in 1..Len(lt_matches)}

\* C17: every entry of the grammar rules is the table's description of an
\* error type of the merged list, or a message of the rule checker shorter
\* than 100 characters (the output is a set: it has no duplicates)
C17_GrammarRulesFromTableOrChecker ==
  pc = "done" =>
    \A rule \in response.grammar_rules :
      \/ \E error_type \in MergedErrorTypes \cap DOMAIN grammar_rules_table :
           rule = grammar_rules_table[error_type]
      \/ rule \in RuleCheckerMessages /\ Len(rule) < 100

\* the distinct error types of the first n edits, in the order in which they
\* first occur
RECURSIVE TypesInOrder(_, _)
TypesInOrder(edits, n) ==
  IF n = 0 THEN <<>>
  ELSE LET before == TypesInOrder(edits, n - 1)
       IN  IF \E k \in 1..Len(before) : before[k] = edits[n].error_type
             THEN before
             ELSE Append(before, edits[n].error_type)

\* the number of edits of the error type
CountOfType(edits, error_type) ==
  Cardinality({i \in 1..Len(edits) : edits[i].error_type = error_type})

\* the clause reporting count edits of the error type
ClauseOf(count, error_type) ==
  IF count = 1 THEN "1 " \o error_type \o " error"
  ELSE ToString(count) \o " " \o error_type \o " errors"

\* the clauses of the types, each ended by a full stop
RECURSIVE ClausesOf(_, _)
ClausesOf(edits, types) ==
  IF types = <<>> THEN ""
  ELSE " " \o ClauseOf(CountOfType(edits, Head(types)), Head(types)) \o "."
         \o ClausesOf(edits, Tail(types))

\* the sum of the counts of the types
RECURSIVE SumOfCounts(_, _)
SumOfCounts(edits, types) ==
  IF types = <<>> THEN 0
  ELSE CountOfType(edits, Head(types)) + SumOfCounts(edits, Tail(types))

\* C18: for a non-empty merged list the explanation reports the number of
\* edits, then one clause for each distinct error type with the number of
\* edits of that type; the counts add up to the length of the merged list
C18_ExplanationTalliesTypes ==
  (pc = "done" /\ merged_corrections # <<>>) =>
    LET n == Len(merged_corrections)
        types == TypesInOrder(merged_corrections, n)
    IN  /\ response.explanation
             = "Found " \o ToString(n) \o " correction(s)."
                 \o ClausesOf(merged_corrections, types)
        /\ Len(types) = Cardinality(MergedErrorTypes)
        /\ SumOfCounts(merged_corrections, types) = n

\* a merged list of two edits of two error types
C18_Witness ==
  /\ pc = "done"
  /\ Len(merged_corrections) = 2
  /\ merged_corrections[1].error_type = "spelling"
  /\ merged_corrections[2].error_type = "grammar"

\* keyword is a substring of s, whatever the case of s
HasKeyword(s, keyword) == Contains(Lower(s), keyword)

\* the type of the first check, from the k-th on, that matches the rule
\* identifier or the category; "grammar" when none does.  A check matches
\* when one of its in_id keywords is in the rule identifier or one of its
\* in_category keywords is in the category.
RECURSIVE FirstMatchFrom(_, _, _, _)
FirstMatchFrom(checks, k, rule_id, category) ==
  IF k > Len(checks) THEN "grammar"
  ELSE IF \/ \E keyword \in checks[k].in_id : HasKeyword(rule_id, keyword)
          \/ \E keyword \in checks[k].in_category : HasKeyword(category, keyword)
    THEN checks[k].type
  ELSE FirstMatchFrom(checks, k + 1, rule_id, category)

\* the ordered keyword checks: "spell", "punct" and "capital" are looked for
\* in both strings, "grammar" in the category, "agreement", "article",
\* "preposition" and "tense" in the rule identifier
KeywordChecks ==
  <<[type |-> "spelling", in_id |-> {"spell"}, in_category |-> {"spell"}],
    [type |-> "grammar", in_id |-> {"agreement"}, in_category |-> {"grammar"}],
    [type |-> "punctuation", in_id |-> {"punct"}, in_category |-> {"punct"}],
    [type |-> "capitalization", in_id |-> {"capital"}, in_category |-> {"capital"}],
    [type |-> "article_usage", in_id |-> {"article"}, in_category |-> {}],
    [type |-> "preposition_usage", in_id |-> {"preposition"}, in_category |-> {}],
    [type |-> "verb_tense", in_id |-> {"tense"}, in_category |-> {}]>>

\* the same checks with every keyword looked for in both strings
KeywordChecksInBoth ==
  [k \in 1..Len(KeywordChecks) |->
     [type |-> KeywordChecks[k].type,
      in_id |-> KeywordChecks[k].in_id \cup KeywordChecks[k].in_category,
      in_category |-> KeywordChecks[k].in_id \cup KeywordChecks[k].in_category]]

\* the error type of every converted match is the type the checks give
CategorisedBy(checks) ==
  (pc \in {"lt_done", "done"} /\ lt_status = "returned") =>
    /\ Len(lt_corrections) = Len(lt_matches)
    /\ \A i \in 1..Len(lt_matches) :
         lt_corrections[i].error_type
           = FirstMatchFrom(checks, 1, lt_matches[i].ruleId, lt_matches[i].category)

\* C19 (amended): the error type of a match is decided by the first matching
\* check in the order spelling, grammar/agreement, punctuation,
\* capitalization, article, preposition, tense, each keyword a
\* case-insensitive substring of the string(s) its check looks at; "grammar"
\* when none matches
C19_FirstKeywordCheckWins == CategorisedBy(KeywordChecks)

\* C19 as stated: the same, every check looking at both the rule identifier
\* and the category
C19_EveryCheckInspectsBoth == CategorisedBy(KeywordChecksInBoth)

\* a match whose rule identifier holds the keywords of two checks, the later
\* check's keyword first
C19_Witness ==
  /\ pc = "lt_done"
  /\ lt_status = "returned"
  /\ Len(lt_matches) = 1
  /\ lt_matches[1].ruleId = "TENSE_SPELL"
  /\ lt_matches[1].category = "MISC"

\* the confidence of a match, in hundredths: min(1.0, max(0.1, c + adj))
ExpectedMatchConfidence(match) ==
  LET c == CASE match.category = "GRAMMAR" -> 90
             [] match.category = "TYPOS" -> 95
             [] match.category = "STYLE" -> 60
             [] OTHER -> 80
      adj == CASE Len(match.replacements) = 1 -> 10
               [] Len(match.replacements) > 3 -> 0 - 10
               [] OTHER -> 0
  IN  Min(100, Max(10, c + adj))

\* C20: the confidence of every rule-checker edit is min(1.0, max(0.1, c + adj))
\* of its match, and so lies in [0.1, 1.0]
C20_MatchConfidenceClamped ==
  (pc \in {"lt_done", "done"} /\ lt_status = "returned") =>
    /\ Len(lt_corrections) = Len(lt_matches)
    /\ \A i \in 1..Len(lt_matches) :
         /\ lt_corrections[i].confidence = ExpectedMatchConfidence(lt_matches[i])
         /\ lt_corrections[i].confidence >= 10
         /\ lt_corrections[i].confidence <= 100
         /\ (lt_matches[i].category = "TYPOS" /\ Len(lt_matches[i].replacements) = 1)
              => lt_corrections[i].confidence = 100

\* a TYPOS match with one replacement has been converted
C20_Witness ==
  /\ pc = "lt_done"
  /\ lt_status = "returned"
  /\ Len(lt_matches) = 1
  /\ lt_matches[1].category = "TYPOS"
  /\ Len(lt_matches[1].replacements) = 1
  /\ Len(lt_corrections) = 1

\* the merged edits that carry the given source label, in list order
MergedFrom(source) ==
  LET labelled(e) == e.source = source IN SelectSeq(merged_corrections, labelled)

\* the edit is _merge_corrections' rendering of one of the differences between
\* the original text and the rewrite
FromRewrite(e) ==
  LET diffs == find_text_differences(original_text, t5_corrected)
  IN  \E k \in 1..Len(diffs) :
        /\ e.start = diffs[k].start /\ e.end = diffs[k].end
        /\ e.original = diffs[k].original /\ e.corrected = diffs[k].corrected

\* C21: every merged edit is labelled "languagetool" or "t5"; the edits
\* labelled "languagetool" are exactly the rule-checker edits, each as often as
\* the rule checker returned it; every other edit renders a difference between
\* the original text and the rewrite, with error_type "grammar", confidence
\* 0.7 (70 hundredths) and the label "t5" of the generative model
C21_GenerativeEditsLabelled ==
  pc = "done" =>
    /\ Len(MergedFrom("languagetool")) = Len(lt_corrections)
    /\ \A i \in 1..Len(lt_corrections) :
         Occurrences(merged_corrections, lt_corrections[i])
           = Occurrences(lt_corrections, lt_corrections[i])
    /\ \A i \in 1..Len(merged_corrections) :
         LET e == merged_corrections[i]
         IN  e.source # "languagetool" =>
               /\ FromRewrite(e)
               /\ e.error_type = "grammar"
               /\ e.confidence = 70
               /\ e.source = "t5"

\* a merged list that holds a rule-checker edit and a generative edit
C21_Witness ==
  /\ pc = "done"
  /\ MergedFrom("languagetool") # <<>>
  /\ MergedFrom("t5") # <<>>

\* the request has got as far as the call of _merge_corrections
MergeStarted == pc = "done" \/ (pc = "failed" /\ error # "ValueError")

\* C22: the merge starts only when the call of the generative model and the
\* call of the rule checker have both returned, normally or by their fallback;
\* until then there is no merged list, no corrected text and no response; and
\* the merged list is the function _merge_corrections of the original text,
\* the rewrite and the rule-checker edits, whatever way the two calls ended
C22_MergeAfterBothProducers ==
  /\ ~MergeStarted =>
       /\ merged_corrections = <<>>
       /\ corrected_text = ""
       /\ response = NoResponse
  /\ MergeStarted =>
       /\ t5_status \in {"returned", "raised", "unavailable"}
       /\ lt_status \in {"returned", "failed", "unavailable"}
       /\ merged_corrections
            = merge_corrections(original_text, t5_corrected, lt_corrections)

\* a merge after the generative model raised and the rule checker returned an
\* edit
C22_Witness ==
  /\ pc = "done"
  /\ t5_status = "raised"
  /\ lt_status = "returned"
  /\ merged_corrections # <<>>

\* a producer has been called
ProducerCalled == t5_status # "not_called" \/ lt_status # "not_called"

\* the request was refused for its text: by the request model, or by the
\* agent's check of the cleaned text
RefusedForItsText == pc = "rejected" \/ (pc = "failed" /\ error = "ValueError")

\* C23: the producers, the merge, the application and the explanation only
\* ever see a non-empty original text; a request whose text is blank, or empty
\* after cleaning, ends with an error before any producer or the merge is
\* called
C23_NeverAnEmptyOriginalText ==
  /\ (pc \in {"cleaned", "t5_done", "lt_done"} \/ ProducerCalled \/ MergeStarted)
       => original_text # ""
  /\ RefusedForItsText =>
       /\ error # ""
       /\ ~ProducerCalled
       /\ merged_corrections = <<>>
       /\ corrected_text = ""
       /\ response = NoResponse
  /\ (pc = "failed" /\ error = "ValueError") => original_text = ""

\* a request whose text passed the request model and is empty after cleaning
C23_Witness ==
  /\ pc = "failed"
  /\ error = "ValueError"
  /\ original_text = ""

\* the 1-based word indices, up to the shorter of the two lengths, at which
\* the words differ
DifferingIndices(original_words, corrected_words) ==
  {i \in 1..Min(Len(original_words), Len(corrected_words)) :
     original_words[i] # corrected_words[i]}

\* the k-th smallest element of a set of numbers
KthOf(indices, k) ==
  CHOOSE i \in indices : Cardinality({j \in indices : j < i}) = k - 1

\* C26: once the generative model has been called, the differences between
\* the original text and the rewrite are at most as many as the shorter of the
\* two has words: one for each index at which the words differ, in index
\* order, giving the original word, the rewrite's word, and the span reckoned
\* from the lengths of the preceding original words and one space for each.
\* Words beyond the shorter length give none: a rewrite that only appends or
\* only drops trailing words has no difference
C26_OneCandidatePerDifferingIndex ==
  t5_status # "not_called" =>
    LET original_words == Split(original_text)
        corrected_words == Split(t5_corrected)
        shorter == Min(Len(original_words), Len(corrected_words))
        differing == DifferingIndices(original_words, corrected_words)
        diffs == find_text_differences(original_text, t5_corrected)
    IN  /\ Len(diffs) <= shorter
        /\ Len(diffs) = Cardinality(differing)
        /\ \A k \in 1..Len(diffs) :
             LET i == KthOf(differing, k)
             IN  /\ diffs[k].original = original_words[i]
                 /\ diffs[k].corrected = corrected_words[i]
                 /\ diffs[k].start = TokenStart(original_words, i)
                 /\ diffs[k].end = diffs[k].start + Len(original_words[i])
        /\ (SubSeq(original_words, 1, shorter) = SubSeq(corrected_words, 1, shorter))
             => diffs = <<>>

\* a rewrite with a changed first word and an appended word: one difference
C26_Witness ==
  /\ pc = "done"
  /\ t5_status = "returned"
  /\ Len(Split(t5_corrected)) > Len(Split(original_text))
  /\ Len(find_text_differences(original_text, t5_corrected)) = 1
  /\ \E i \in 1..Len(merged_corrections) : merged_corrections[i].source = "t5"

\* C30: when the rule checker's call returns, the edit of each match has as
\* `corrected` the first replacement of the match, and the empty string when
\* the match offers none; and when the merged list is one edit of a match
\* without replacement, the corrected text is the original text without the
\* flagged span
C30_FirstReplacementOrDeletion ==
  (pc = "done" /\ lt_status = "returned") =>
    /\ Len(lt_corrections) = Len(lt_matches)
    /\ \A i \in 1..Len(lt_matches) :
         /\ lt_corrections[i].start = lt_matches[i].offset
         /\ lt_corrections[i].end = lt_matches[i].offset + lt_matches[i].errorLength
         /\ lt_corrections[i].corrected
              = IF lt_matches[i].replacements = <<>> THEN ""
                ELSE Head(lt_matches[i].replacements)
    /\ (/\ Len(lt_matches) = 1
        /\ lt_matches[1].replacements = <<>>
        /\ merged_corrections = lt_corrections) =>
         corrected_text
           = SliceTo(original_text, lt_matches[1].offset)
               \o SliceFrom(original_text,
                            lt_matches[1].offset + lt_matches[1].errorLength)

\* a match without replacement that flags the "b" of "abc": the corrected
\* text is "ac"
C30_Witness ==
  /\ pc = "done"
  /\ original_text = "abc"
  /\ Len(lt_matches) = 1
  /\ lt_matches[1].replacements = <<>>
  /\ lt_matches[1].offset = 1
  /\ lt_matches[1].errorLength = 1
  /\ Len(merged_corrections) = 1
  /\ merged_corrections[1].corrected = ""
  /\ corrected_text = "ac"

\* C25: every request refused for its text (a blank text, or a ValueError
\* raised by the agent, such as a text that is empty after cleaning) reaches
\* the client with the validation status 422, never with the status 500
C25_TextRejectionsAre422 ==
  RefusedForItsText => status_code = 422

\* the `section` parameter names no section: it is absent or empty
NoSection(section) == section = None \/ section = ""

\* the entries of the store that are not of the section, in list order
EntriesOutside(storage, section) ==
  LET other(entry) == entry.section # section IN SelectSeq(storage, other)

\* what a step that is a call of clear_history does to the store
ClearHistoryStep ==
  LET section == history_call'.section
      confirm == history_call'.confirm
  IN  /\ (NoSection(section) /\ ~confirm) =>
           /\ history_call'.status_code = 400
           /\ history_storage' = history_storage
      /\ ~NoSection(section) =>
           /\ history_call'.status_code = 200
           /\ history_storage' = EntriesOutside(history_storage, section)
      /\ (NoSection(section) /\ confirm) =>
           /\ history_call'.status_code = 200
           /\ history_storage' = <<>>
      /\ (IdsOf(EntriesOutside(history_storage, section)) \ IdsOf(history_storage') # {})
           => (NoSection(section) /\ confirm)
      /\ history_id_counter' = history_id_counter

\* C24: clear_history with no section and confirm = false answers 400 and
\* leaves the store as it was; with a section it removes the entries of that
\* section and keeps every other entry, in order; an entry of another section
\* is removed only by a call with confirm = true and no section, which
\* empties the store
C24_ClearHistoryFrame ==
  [][history_call'.op = "clear" => ClearHistoryStep]_vars

\* an unconfirmed call without section on a store that holds entries
C24_Witness ==
  /\ history_call.op = "clear"
  /\ history_call.section = None
  /\ ~history_call.confirm
  /\ history_call.status_code = 400
  /\ Len(history_storage) >= 2

\* C28: the stored entries have pairwise distinct ids, increasing in the order
\* in which they were added; every id handed out so far is below the
\* counter, so the id of a new entry is above every id stored or removed
\* before; and no stored entry has the id of a removed one
C28_HistoryIdsNeverReused ==
  /\ \A i, j \in 1..Len(history_storage) :
       i < j => history_storage[i].id < history_storage[j].id
  /\ \A id \in IdsOf(history_storage) \cup removed_ids : id < history_id_counter
  /\ IdsOf(history_storage) \cap removed_ids = {}
  /\ history_call.op = "add" =>
       /\ history_call.entry_id \in IdsOf(history_storage)
       /\ \A id \in IdsOf(history_storage) \cup removed_ids :
            id # history_call.entry_id => id < history_call.entry_id

\* an entry added after one entry was deleted and others were cleared
C28_Witness ==
  /\ history_call.op = "add"
  /\ Cardinality(removed_ids) >= 2
  /\ Len(history_storage) >= 2

\* the stored status of a verb agrees with its stored progress: "learned" for
\* at least three attempts of which at least 0.8 were correct, and otherwise
\* "in_progress" for any attempt at all
StatusAgreesWithProgress(verb_data) ==
  LET attempts == verb_data.progress.attempts
      correct_answers == verb_data.progress.correct_answers
      mastered == attempts >= 3 /\ 5 * correct_answers >= 4 * attempts
  IN  /\ mastered => verb_data.status = "learned"
      /\ (attempts > 0 /\ ~mastered) => verb_data.status = "in_progress"

\* C27: after a successful update_phrasal_verb_progress the stored status of
\* the verb agrees with its stored progress, whatever status the request
\* asked for; and at any time no verb with attempts > 0 is "pending"
C27_StatusAgreesWithProgress ==
  /\ (verb_call.status_code = 200) =>
       StatusAgreesWithProgress(phrasal_verbs_data[verb_call.verb_id])
  /\ \A id \in DOMAIN phrasal_verbs_data :
       phrasal_verbs_data[id].progress.attempts > 0
         => phrasal_verbs_data[id].status # "pending"

\* a successful update that asked for "pending" and left the verb "learned"
C27_Witness ==
  /\ verb_call.status_code = 200
  /\ verb_call.status = "pending"
  /\ phrasal_verbs_data[verb_call.verb_id].status = "learned"
  /\ phrasal_verbs_data[verb_call.verb_id].progress.attempts = 5
  /\ phrasal_verbs_data[verb_call.verb_id].progress.correct_answers = 4

\* C29: whenever load_model returns a model for a key, the manager holds a
\* tokenizer for that key; and a get_pipeline for a configured model whose
\* memoised or fresh loading gives a model, and whose pipeline can be built,
\* returns a pipeline, also after clear_cache
C29_ModelComesWithTokenizer ==
  /\ (manager_call.op = "load_model" /\ manager_call.result = "model")
       => manager_call.model_key \in tokenizers
  /\ (/\ manager_call.op = "get_pipeline"
      /\ manager_call.model_key \in ConfiguredModels
      /\ load_model_cache[manager_call.model_key] = "model"
      /\ manager_call.builds)
       => manager_call.result = "pipeline"

====
